---- MODULE Spec2Model ----
(***************************************************************************)
(* Highlight scoring and continuous-learning pipeline of IA_KICK.          *)
(*                                                                         *)
(* The module holds several specifications over one set of variables:      *)
(*   SpecFilter  KickClipGenerator._filter_highlights as a pure function   *)
(*   SpecModel   MLHighlightModel driven through its methods, one track    *)
(*   SpecRetrain add_training_sample and retrain on both modalities, from  *)
(*               a model loaded with sample lists just below the threshold *)
(*   SpecPipeline process_stream passes over short streams                 *)
(*   SpecRating  rating handlers, rating-based training, stream passes and *)
(*               restarts in one Gradio process                            *)
(*   SpecChunks  StreamProcessor.process_stream_chunks over ranges of a    *)
(*               stream, for small and default chunk lengths               *)
(*   SpecDrift   process_stream passes whose audio vectors have another    *)
(*               length than the samples of the loaded blob; a pass that   *)
(*               began runs on to its return                               *)
(*   SpecGap     process_stream passes of a KickClipGenerator built with   *)
(*               any min_gap, positive or not                              *)
(*   SpecCrash   process_stream passes whose save_model writes the file in *)
(*               two steps, with process crashes between any two steps     *)
(*   SpecWrapper process_stream_wrapper calls of several worker threads on *)
(*               one GradioInterface                                       *)
(*   SpecOutcomes process_stream_chunks with downloads that may fail       *)
(* Each specification initialises the variables of the other parts to an   *)
(* idle value and leaves them unchanged.                                    *)
(*                                                                         *)
(* Numbers: seconds and scores are integers.  A score is kept in           *)
(* hundredths where the 0.6/0.4 blend is computed.                          *)
(***************************************************************************)
EXTENDS Integers, Sequences, FiniteSets

VARIABLES
    \* ---- _filter_highlights: arguments, self.min_gap and the returned list
    highlights, top_n, max_clips, min_gap, result, fpc,
    \* ---- MLHighlightModel
    ml,                 \* the MLHighlightModel object of the process
    ret,                \* value returned by the last predict_*_score call
    last,               \* the method of MLHighlightModel called last
    blob,               \* the pickle at model_path
    tracks,             \* modalities the stream yields feature vectors for
    \* ---- StreamProcessor and KickClipGenerator.process_stream
    chunk_duration,     \* StreamProcessor.chunk_duration
    overlap,            \* StreamProcessor.overlap
    ppc,                \* where process_stream stands: "idle", "chunks"
                        \* (in the for loop), "fitted" (inside retrain(),
                        \* before save_model)
    current_time,       \* locals of process_stream_chunks
    end_time_sec,
    chunk_index,
    chunk_info,         \* the chunk yielded last, <<>> if none
    audio_highlights,   \* KickClipGenerator.audio_highlights
    video_highlights,   \* KickClipGenerator.video_highlights
    max_audio_clips,    \* locals of process_stream, after the cap
    max_video_clips,
    \* ---- clip database and RatingBasedTrainer
    clips,              \* rows of the clips table, in id order
    tpc,                \* where train_from_ratings stands: "idle", "loaded"
                        \* (after _load_or_create_model, before the fits)
    training_data,      \* local of train_from_ratings: prepared samples
    model_data,         \* local of train_from_ratings: the unpickled blob
    rate_ret,           \* what the last rate_clip_handler/train call did
    \* ---- GradioInterface.process_stream_wrapper
    processing,         \* GradioInterface.processing
    wpc,                \* per call: "idle" (not running), "test" (past the
                        \* test of self.processing), "analysis" (inside try)
    wret                \* per call: what its last run returned

filterVars == <<highlights, top_n, max_clips, min_gap, result, fpc>>
modelVars == <<ml, ret, last, blob, tracks>>
pipeVars == <<chunk_duration, overlap, ppc, current_time, end_time_sec,
              chunk_index, chunk_info, audio_highlights, video_highlights,
              max_audio_clips, max_video_clips>>
rateVars == <<clips, tpc, training_data, model_data, rate_ret>>
wrapVars == <<processing, wpc, wret>>
vars == <<filterVars, modelVars, pipeVars, rateVars, wrapVars>>

Abs(x) == IF x < 0 THEN -x ELSE x
Min(a, b) == IF a < b THEN a ELSE b
Max(a, b) == IF a > b THEN a ELSE b

(***************************************************************************)
(* Bounds of the model                                                     *)
(***************************************************************************)
MaxCands == 3       \* longest candidate list handed to _filter_highlights;
                    \* top_n and max_clips are 0..MaxCands
MaxTime == 2        \* start times and min_gap are 0..MaxTime
MaxScore == 1       \* scores are 0..MaxScore

MaxCalls == 3       \* process_stream_wrapper calls that may overlap
Calls == 1..MaxCalls

\* max_clips=None: no limit given
NoMaxClips == -1

(***************************************************************************)
(* KickClipGenerator._filter_highlights                                    *)
(***************************************************************************)
Highlight == [start_time : 0..MaxTime, score : 0..MaxScore]

RECURSIVE SortByScoreDesc(_)
\* sorted(highlights, key=lambda x: x.score, reverse=True): stable, so equal
\* scores keep their input order.
SortByScoreDesc(hs) ==
    IF hs = <<>> THEN <<>>
    ELSE LET n == Len(hs)
             init == SortByScoreDesc(SubSeq(hs, 1, n - 1))
             h == hs[n]
             k == Cardinality({i \in 1..Len(init) : init[i].score >= h.score})
         IN SubSeq(init, 1, k) \o <<h>> \o SubSeq(init, k + 1, Len(init))

RECURSIVE SortByStartAsc(_)
\* sorted(filtered, key=lambda x: x.start_time): stable, ascending.
SortByStartAsc(hs) ==
    IF hs = <<>> THEN <<>>
    ELSE LET n == Len(hs)
             init == SortByStartAsc(SubSeq(hs, 1, n - 1))
             h == hs[n]
             k == Cardinality({i \in 1..Len(init) :
                                 init[i].start_time <= h.start_time})
         IN SubSeq(init, 1, k) \o <<h>> \o SubSeq(init, k + 1, Len(init))

\* An inner loop that looks at the last selected highlight only.
OverlapsLastOnly(h, filtered, gap) ==
    /\ filtered # <<>>
    /\ Abs(h.start_time - filtered[Len(filtered)].start_time) < gap

\* The inner loop: highlight is too close to an already selected one.
Overlaps(h, filtered, gap) ==
    \E j \in 1..Len(filtered) : Abs(h.start_time - filtered[j].start_time) < gap

RECURSIVE Greedy(_, _, _, _, _)
\* for highlight in sorted_highlights: append unless it overlaps, then break
\* once len(filtered) >= top_n (the test follows the append).
Greedy(sorted, i, filtered, n, gap) ==
    IF i > Len(sorted) THEN filtered
    ELSE LET h == sorted[i]
             f2 == IF Overlaps(h, filtered, gap) THEN filtered
                   ELSE Append(filtered, h)
         IN IF Len(f2) >= n THEN f2
            ELSE Greedy(sorted, i + 1, f2, n, gap)

EffectiveTopN(n, mc) == IF mc # NoMaxClips THEN Min(n, mc) ELSE n

\* _filter_highlights returning the greedy list without the final sort.
FilterNoFinalSort(hs, n, mc, gap) ==
    IF hs = <<>> THEN <<>>
    ELSE Greedy(SortByScoreDesc(hs), 1, <<>>, EffectiveTopN(n, mc), gap)

_filter_highlights(hs, n, mc, gap) ==
    IF hs = <<>> THEN <<>>
    ELSE SortByStartAsc(
             Greedy(SortByScoreDesc(hs), 1, <<>>, EffectiveTopN(n, mc), gap))

(***************************************************************************)
(* MLHighlightModel                                                        *)
(***************************************************************************)
Modalities == {"audio", "video"}

\* Keys of the dict extract_audio_features returns
AudioFeatureCount == 17
\* Keys of the dict extract_video_features returns
VideoFeatureCount == 8
\* Length of feature_keys in RatingBasedTrainer._extract_feature_vector
RatingFeatureCount == 15
\* The literal 10 of predict_*_score, retrain and load_model
MinSamples == 10

MaxSamples == 11    \* add_training_sample stops at this many stored vectors

FeatureLens == {VideoFeatureCount, RatingFeatureCount, AudioFeatureCount}

\* A feature dict: key stands for its items (what the cache key hashes), n is
\* its number of entries, h the heuristic score (in tenths) its values give.
FeatureDict(k, n, h) == [key |-> k, n |-> n, h |-> h]

\* _dict_to_vector: one float per dict value, so only the length is kept.
_dict_to_vector(features) == features.n

EmptyData == [l \in FeatureLens |-> 0]

\* len(self.training_data[m]['features'])
RECURSIVE SumOver(_, _)
SumOver(b, ls) ==
    IF ls = {} THEN 0
    ELSE LET l == CHOOSE x \in ls : TRUE IN b[l] + SumOver(b, ls \ {l})

DataLen(b) == SumOver(b, FeatureLens)

\* np.array(features) of vectors of different lengths is not a 2-D array:
\* X.shape[1] (or np.array itself) raises.
Ragged(b) == Cardinality({l \in FeatureLens : b[l] > 0}) > 1

\* X.shape[1]
Shape1(b) == CHOOSE l \in FeatureLens : b[l] > 0

\* The MLHighlightModel object: one record, with one entry per modality
\* where the class has an audio_ and a video_ attribute.
\*   model              audio_model / video_model: 0 unfitted, n fitted on
\*                      vectors of length n
\*   scaler             audio_scaler / video_scaler: 0 unfitted, n fitted
\*   scaler_fitted      audio_scaler_fitted / video_scaler_fitted
\*   expected_features  expected_audio_features / ..video..: 0 is None
\*   training_data      training_data[m]['features'], as the number of stored
\*                      vectors of each length
\*   cache              self.cache: feature-dict key -> cached prediction
NewModel ==
    [model |-> [m \in Modalities |-> 0],
     scaler |-> [m \in Modalities |-> 0],
     scaler_fitted |-> [m \in Modalities |-> FALSE],
     expected_features |-> [m \in Modalities |-> 0],
     training_data |-> [m \in Modalities |-> EmptyData],
     cache |-> <<>>]

NoBlob ==
    [exists |-> FALSE,
     model |-> [m \in Modalities |-> 0],
     scaler |-> [m \in Modalities |-> 0],
     training_data |-> [m \in Modalities |-> EmptyData],
     feature_count |-> [m \in Modalities |-> 0]]

\* The file at model_path after open(model_path, 'wb') and before pickle.dump
\* has written all of it: no pickle.load can read it.
TruncatedBlob == [exists |-> TRUE, truncated |-> TRUE]

\* save_model: the whole in-memory state, pickled over model_path.
save_model(self) ==
    [exists |-> TRUE,
     model |-> self.model,
     scaler |-> self.scaler,
     training_data |-> self.training_data,
     feature_count |-> self.expected_features]

\* __init__ + load_model: the blob's models, scalers, sample history and
\* feature counts; a scaler counts as fitted iff at least 10 samples were
\* stored.  Without a blob: new models, no expected counts, empty history.
load_model(b) ==
    IF b = TruncatedBlob
    THEN NewModel       \* pickle.load raised: the except branch
    ELSE IF b.exists
    THEN [model |-> b.model,
          scaler |-> b.scaler,
          scaler_fitted |->
              [m \in Modalities |->
                  DataLen(b.training_data[m]) >= MinSamples],
          expected_features |-> b.feature_count,
          training_data |-> b.training_data,
          cache |-> <<>>]
    ELSE NewModel

\* An add_training_sample that files every sample under 'audio'.
AddIgnoringType(self, features, m) ==
    [self EXCEPT !.training_data["audio"][_dict_to_vector(features)] = @ + 1]

\* add_training_sample(features, score, feature_type)
add_training_sample(self, features, m) ==
    [self EXCEPT !.training_data[m][_dict_to_vector(features)] = @ + 1]

\* What the ensemble may answer, in tenths, before the max(0.0, score) clamp
RawScores == {-10, 0, 10}

\* The modality is in the state where predict consults the ensemble.
Trained(self, m) ==
    self.scaler_fitted[m] /\ DataLen(self.training_data[m]) >= MinSamples

Mismatch(self, m, features) ==
    /\ self.expected_features[m] # 0
    /\ _dict_to_vector(features) # self.expected_features[m]

CacheSet(c, k, v) ==
    [x \in (DOMAIN c) \cup {k} |-> IF x = k THEN v ELSE c[x]]

\* _reset_audio_model / _reset_video_model
_reset_model(self, m) ==
    [self EXCEPT !.model[m] = 0,
                 !.scaler[m] = 0,
                 !.scaler_fitted[m] = FALSE,
                 !.training_data[m] = EmptyData,
                 !.expected_features[m] = 0]

\* predict_audio_score(features); score is what audio_model.predict answers
\* if it is asked.  (The statements after the first return are dead code.)
\* Returns the object and the returned value.
predict_audio_score(self, features, score) ==
    LET k == features.key IN
    IF k \in DOMAIN self.cache
    THEN [self |-> self, ret |-> self.cache[k]]
    ELSE IF ~Trained(self, "audio")
    THEN [self |-> [self EXCEPT !.cache = CacheSet(@, k, 0)], ret |-> 0]
    ELSE IF Mismatch(self, "audio", features)
    THEN [self |-> [_reset_model(self, "audio")
                        EXCEPT !.cache = CacheSet(@, k, 0)],
          ret |-> 0]
    ELSE IF _dict_to_vector(features) # self.scaler["audio"]
    THEN \* scaler.transform raises: the except branch, nothing cached
         [self |-> self, ret |-> 0]
    ELSE [self |-> [self EXCEPT !.cache = CacheSet(@, k, Max(0, score))],
          ret |-> Max(0, score)]

\* predict_video_score(features): reads the cache, never writes it
predict_video_score(self, features, score) ==
    LET k == features.key IN
    IF k \in DOMAIN self.cache
    THEN [self |-> self, ret |-> self.cache[k]]
    ELSE IF ~Trained(self, "video")
    THEN [self |-> self, ret |-> 0]
    ELSE IF Mismatch(self, "video", features)
    THEN [self |-> _reset_model(self, "video"), ret |-> 0]
    ELSE IF _dict_to_vector(features) # self.scaler["video"]
    THEN [self |-> self, ret |-> 0]
    ELSE [self |-> self, ret |-> Max(0, score)]

predict_score(self, m, features, score) ==
    IF m = "audio" THEN predict_audio_score(self, features, score)
    ELSE predict_video_score(self, features, score)

\* retrain, up to save_model: one try block around the audio section and the
\* video section.  A section runs when its modality holds at least 10
\* samples; it raises on a ragged sample list before it changed anything,
\* and the video section is not reached when the audio section raised.
SectionRaises(self, m) ==
    /\ DataLen(self.training_data[m]) >= MinSamples
    /\ Ragged(self.training_data[m])

Fits(self, m) ==
    /\ m = "audio" \/ ~SectionRaises(self, "audio")
    /\ DataLen(self.training_data[m]) >= MinSamples
    /\ ~Ragged(self.training_data[m])

\* Returns the object and whether the try block raised (save_model skipped).
retrain_fit(self) ==
    [self |->
        [self EXCEPT
            !.expected_features =
                [m \in Modalities |->
                    IF Fits(self, m) THEN Shape1(self.training_data[m])
                    ELSE self.expected_features[m]],
            !.scaler =
                [m \in Modalities |->
                    IF Fits(self, m) THEN Shape1(self.training_data[m])
                    ELSE self.scaler[m]],
            !.model =
                [m \in Modalities |->
                    IF Fits(self, m) THEN Shape1(self.training_data[m])
                    ELSE self.model[m]],
            !.scaler_fitted =
                [m \in Modalities |-> Fits(self, m) \/ self.scaler_fitted[m]]],
     raised |-> \E m \in Modalities : SectionRaises(self, m)]

(***************************************************************************)
(* Calls of the MLHighlightModel methods, one action each                  *)
(***************************************************************************)
CallAdd(features, m) ==
    /\ DataLen(ml.training_data[m]) < MaxSamples
    /\ ml' = add_training_sample(ml, features, m)
    /\ last' = "add_training_sample"
    /\ UNCHANGED <<ret, blob, tracks>>
    /\ UNCHANGED <<wrapVars, filterVars, pipeVars, rateVars>>

CallPredict(m, features) ==
    \E score \in RawScores :
        LET p == predict_score(ml, m, features, score) IN
        /\ ml' = p.self
        /\ ret' = p.ret
        /\ last' = "predict_score"
        /\ UNCHANGED <<blob, tracks>>
        /\ UNCHANGED <<wrapVars, filterVars, pipeVars, rateVars>>

\* retrain(): the two sections, then save_model unless a section raised
CallRetrain ==
    LET r == retrain_fit(ml) IN
    /\ ml' = r.self
    /\ blob' = IF r.raised THEN blob ELSE save_model(r.self)
    /\ last' = "retrain"
    /\ UNCHANGED <<ret, tracks>>
    /\ UNCHANGED <<wrapVars, filterVars, pipeVars, rateVars>>

(***************************************************************************)
(* StreamProcessor.process_stream_chunks and                               *)
(* KickClipGenerator.process_stream                                        *)
(***************************************************************************)
DefaultChunkDuration == 45      \* StreamProcessor(chunk_duration=45, ...)
DefaultOverlap == 3             \* StreamProcessor(..., overlap=3)
DefaultMinGap == 10             \* KickClipGenerator(..., min_gap=10)
MAX_CLIPS_PER_TYPE == 25        \* config.MAX_CLIPS_PER_TYPE
MAX_STREAM_DURATION == 36000    \* config.MAX_STREAM_DURATION
PassTopN == 10                  \* top_n=10 in process_stream

\* An optional value: <<>> is None, <<v>> is the value v
None == <<>>
Some(v) == <<v>>

\* detect_audio_highlights / detect_video_highlights: a weighted sum of the
\* dict's values; the dict carries that sum as h (tenths).
detect_highlights(features) == features.h

\* combined_*_score with the test m >= 0 in place of m > 0
CombinedNonNegative(h, m) == IF m >= 0 THEN 6 * h + 4 * m ELSE 10 * h

\* (score * 0.6 + ml_score * 0.4) if ml_score > 0 else score;
\* h and m in tenths, the result in hundredths
combined_score(h, m) == IF m > 0 THEN 6 * h + 4 * m ELSE 10 * h

\* The range without the MAX_STREAM_DURATION ceiling
TimeRangeNoCeiling(duration, start_minute, end_minute) ==
    LET s0 == IF start_minute # None THEN start_minute[1] * 60 ELSE 0
        e0 == IF end_minute # None THEN end_minute[1] * 60 ELSE duration
        s1 == IF s0 < 0 THEN 0 ELSE s0
        e1 == IF e0 > duration THEN duration ELSE e0
    IN  IF s1 >= e1 THEN <<>> ELSE <<s1, e1>>

\* start_time_sec and end_time_sec of a generator that reads no end_minute
RequestedRangeIgnoringEnd(duration, start_minute, end_minute) ==
    LET s0 == IF start_minute # None THEN start_minute[1] * 60 ELSE 0
    IN  <<IF s0 < 0 THEN 0 ELSE s0, duration>>

\* start_time_sec and end_time_sec after the conversion from minutes and
\* the two clamps
RequestedRange(duration, start_minute, end_minute) ==
    LET s0 == IF start_minute # None THEN start_minute[1] * 60 ELSE 0
        e0 == IF end_minute # None THEN end_minute[1] * 60 ELSE duration
    IN  <<IF s0 < 0 THEN 0 ELSE s0, IF e0 > duration THEN duration ELSE e0>>

\* The range process_stream_chunks walks: <<start_time_sec, end_time_sec>>,
\* or <<>> when it returns before the loop.
TimeRange(duration, start_minute, end_minute) ==
    LET s1 == RequestedRange(duration, start_minute, end_minute)[1]
        e1 == RequestedRange(duration, start_minute, end_minute)[2]
    IN  IF s1 >= e1 THEN <<>>
        ELSE <<s1, IF e1 - s1 > MAX_STREAM_DURATION
                   THEN s1 + MAX_STREAM_DURATION ELSE e1>>

\* process_stream up to the first iteration of the loop; info is what
\* get_stream_info returned (None, or the duration).
StartPass(info, start_minute, end_minute, mac, mvc) ==
    /\ ppc = "idle"
    /\ \A m \in Modalities : DataLen(ml.training_data[m]) <= MaxSamples
    /\ audio_highlights' = <<>>
    /\ video_highlights' = <<>>
    /\ max_audio_clips' = Min(mac, MAX_CLIPS_PER_TYPE)
    /\ max_video_clips' = Min(mvc, MAX_CLIPS_PER_TYPE)
    /\ LET r == IF info = None THEN <<>>
                ELSE TimeRange(info[1], start_minute, end_minute)
           q == IF info = None THEN <<0, 0>>
                ELSE RequestedRange(info[1], start_minute, end_minute)
       IN  \* a rejected range leaves the generator with its two bounds, the
           \* start not below the end, and the loop is never entered
           /\ current_time' = IF r = <<>> THEN q[1] ELSE r[1]
           /\ end_time_sec' = IF r = <<>> THEN q[2] ELSE r[2]
    /\ chunk_index' = 0
    /\ chunk_info' = None
    /\ ppc' = "chunks"
    /\ UNCHANGED <<chunk_duration, overlap>>
    /\ UNCHANGED <<wrapVars, filterVars, modelVars, rateVars>>

\* The scoring of one feature dict in the loop body: heuristic, prediction,
\* blend, Highlight, add_training_sample.  ml_score keeps the ml_*_score
\* local next to the Highlight built from it.
ScoreChunk(self, m, features, score, start_time) ==
    LET p == predict_score(self, m, features, score)
        c == combined_score(detect_highlights(features), p.ret)
    IN  [self |-> add_training_sample(p.self, features, m),
         highlight |-> [start_time |-> start_time,
                        end_time |-> start_time + chunk_duration,
                        score |-> c,
                        type |-> m,
                        features |-> features,
                        ml_score |-> p.ret]]

\* A loop that gives up the rest of the range when a download fails
NextChunkStopOnFailure(success, audio_features, video_features) ==
    /\ ppc = "chunks"
    /\ current_time < end_time_sec
    /\ current_time' = IF success
                       THEN current_time + (chunk_duration - overlap)
                       ELSE end_time_sec
    /\ chunk_index' = chunk_index + 1
    /\ IF success
       THEN \E sa \in RawScores, sv \in RawScores :
              LET chunk_dur == Min(chunk_duration, end_time_sec - current_time)
                  a == ScoreChunk(ml, "audio", audio_features[1], sa,
                                  current_time)
                  ml1 == IF audio_features # None THEN a.self ELSE ml
                  v == ScoreChunk(ml1, "video", video_features[1], sv,
                                  current_time)
              IN  /\ chunk_info' =
                         Some([start_time |-> current_time,
                               end_time |-> Min(current_time + chunk_dur,
                                                end_time_sec),
                               index |-> chunk_index])
                  /\ audio_highlights' =
                         IF audio_features # None
                         THEN Append(audio_highlights, a.highlight)
                         ELSE audio_highlights
                  /\ video_highlights' =
                         IF video_features # None
                         THEN Append(video_highlights, v.highlight)
                         ELSE video_highlights
                  /\ ml' = IF video_features # None THEN v.self ELSE ml1
       ELSE UNCHANGED <<chunk_info, audio_highlights, video_highlights, ml>>
    /\ UNCHANGED <<ret, last, blob, tracks>>
    /\ UNCHANGED <<chunk_duration, overlap, ppc, end_time_sec,
                   max_audio_clips, max_video_clips>>
    /\ UNCHANGED <<wrapVars, filterVars, rateVars>>

\* A loop that asks for the same window again when a download fails
NextChunkRetryOnFailure(success, audio_features, video_features) ==
    /\ ppc = "chunks"
    /\ current_time < end_time_sec
    /\ current_time' = IF success
                       THEN current_time + (chunk_duration - overlap)
                       ELSE current_time
    /\ chunk_index' = chunk_index + 1
    /\ IF success
       THEN \E sa \in RawScores, sv \in RawScores :
              LET chunk_dur == Min(chunk_duration, end_time_sec - current_time)
                  a == ScoreChunk(ml, "audio", audio_features[1], sa,
                                  current_time)
                  ml1 == IF audio_features # None THEN a.self ELSE ml
                  v == ScoreChunk(ml1, "video", video_features[1], sv,
                                  current_time)
              IN  /\ chunk_info' =
                         Some([start_time |-> current_time,
                               end_time |-> Min(current_time + chunk_dur,
                                                end_time_sec),
                               index |-> chunk_index])
                  /\ audio_highlights' =
                         IF audio_features # None
                         THEN Append(audio_highlights, a.highlight)
                         ELSE audio_highlights
                  /\ video_highlights' =
                         IF video_features # None
                         THEN Append(video_highlights, v.highlight)
                         ELSE video_highlights
                  /\ ml' = IF video_features # None THEN v.self ELSE ml1
       ELSE UNCHANGED <<chunk_info, audio_highlights, video_highlights, ml>>
    /\ UNCHANGED <<ret, last, blob, tracks>>
    /\ UNCHANGED <<chunk_duration, overlap, ppc, end_time_sec,
                   max_audio_clips, max_video_clips>>
    /\ UNCHANGED <<wrapVars, filterVars, rateVars>>

\* One iteration of the while loop of process_stream_chunks and, when the
\* download succeeded, the loop body of process_stream on the yielded chunk.
NextChunk(success, audio_features, video_features) ==
    /\ ppc = "chunks"
    /\ current_time < end_time_sec
    /\ current_time' = current_time + (chunk_duration - overlap)
    /\ chunk_index' = chunk_index + 1
    /\ IF success
       THEN \E sa \in RawScores, sv \in RawScores :
              LET chunk_dur == Min(chunk_duration, end_time_sec - current_time)
                  a == ScoreChunk(ml, "audio", audio_features[1], sa,
                                  current_time)
                  ml1 == IF audio_features # None THEN a.self ELSE ml
                  v == ScoreChunk(ml1, "video", video_features[1], sv,
                                  current_time)
              IN  /\ chunk_info' =
                         Some([start_time |-> current_time,
                               end_time |-> Min(current_time + chunk_dur,
                                                end_time_sec),
                               index |-> chunk_index])
                  /\ audio_highlights' =
                         IF audio_features # None
                         THEN Append(audio_highlights, a.highlight)
                         ELSE audio_highlights
                  /\ video_highlights' =
                         IF video_features # None
                         THEN Append(video_highlights, v.highlight)
                         ELSE video_highlights
                  /\ ml' = IF video_features # None THEN v.self ELSE ml1
       ELSE UNCHANGED <<chunk_info, audio_highlights, video_highlights, ml>>
    /\ UNCHANGED <<ret, last, blob, tracks>>
    /\ UNCHANGED <<chunk_duration, overlap, ppc, end_time_sec,
                   max_audio_clips, max_video_clips>>
    /\ UNCHANGED <<wrapVars, filterVars, rateVars>>

\* After the loop: both lists are filtered, then retrain() as far as its try
\* block; process_stream returns right away when that block raised.
EndLoop ==
    /\ ppc = "chunks"
    /\ current_time >= end_time_sec
    /\ audio_highlights' =
           _filter_highlights(audio_highlights, PassTopN, max_audio_clips,
                              min_gap)
    /\ video_highlights' =
           _filter_highlights(video_highlights, PassTopN, max_video_clips,
                              min_gap)
    /\ LET r == retrain_fit(ml)
       IN  /\ ml' = r.self
           /\ ppc' = IF r.raised THEN "idle" ELSE "fitted"
    /\ UNCHANGED <<ret, last, blob, tracks>>
    /\ UNCHANGED <<chunk_duration, overlap, current_time, end_time_sec,
                   chunk_index, chunk_info, max_audio_clips, max_video_clips>>
    /\ UNCHANGED <<wrapVars, filterVars, rateVars>>

\* save_model() at the end of retrain(), and the return of process_stream
SavePass ==
    /\ ppc = "fitted"
    /\ blob' = save_model(ml)
    /\ ppc' = "idle"
    /\ UNCHANGED <<ml, ret, last, tracks>>
    /\ UNCHANGED <<chunk_duration, overlap, current_time, end_time_sec,
                   chunk_index, chunk_info, audio_highlights,
                   video_highlights, max_audio_clips, max_video_clips>>
    /\ UNCHANGED <<wrapVars, filterVars, rateVars>>

(***************************************************************************)
(* ClipDatabase, RatingBasedTrainer and the rating handlers                *)
(***************************************************************************)
ReadyClips == 10    \* 'ready_for_training': stats['rated_clips'] >= 10
Cadence == 5        \* progress['rated_clips'] % 5 == 0
NoRating == 0       \* rating IS NULL

\* A row of the clips table: the Highlight's feature dict and the rating
Row(features, rating) == [features |-> features, rating |-> rating]

\* An update_rating that inserts a rated copy of the row
UpdateByInsert(rows, clip_id, rating) ==
    IF 1 <= rating /\ rating <= 5 /\ clip_id \in DOMAIN rows
    THEN [ok |-> TRUE,
          rows |-> Append(rows, [rows[clip_id] EXCEPT !.rating = rating])]
    ELSE [ok |-> FALSE, rows |-> rows]

\* ClipDatabase.update_rating: the rows afterwards and the returned bool
update_rating(rows, clip_id, rating) ==
    IF 1 <= rating /\ rating <= 5 /\ clip_id \in DOMAIN rows
    THEN [ok |-> TRUE, rows |-> [rows EXCEPT ![clip_id].rating = rating]]
    ELSE [ok |-> FALSE, rows |-> rows]

RECURSIVE get_training_data(_)
\* ClipDatabase.get_training_data: one (features, rating) pair per rated row,
\* newest row first (ORDER BY created_at DESC)
get_training_data(rows) ==
    IF rows = <<>> THEN <<>>
    ELSE LET n == Len(rows)
             rest == get_training_data(SubSeq(rows, 1, n - 1))
         IN  IF rows[n].rating # NoRating
             THEN <<<<rows[n].features, rows[n].rating>>>> \o rest
             ELSE rest

\* get_statistics()['rated_clips']
rated_clips(rows) ==
    Cardinality({i \in DOMAIN rows : rows[i].rating # NoRating})

\* _is_audio_features: any of the audio keys present, which is the case for
\* the dict extract_audio_features builds and for no other.
_is_audio_features(features) == features.n = AudioFeatureCount

\* _extract_feature_vector: one float per key of its fixed key list
_extract_feature_vector(features) == RatingFeatureCount

\* prepare_training_data: the vectors of the rated clips, split by type
prepare_training_data(rows) ==
    [m \in Modalities |->
        [l \in FeatureLens |->
            Cardinality({i \in DOMAIN rows :
                /\ rows[i].rating # NoRating
                /\ (m = "audio") = _is_audio_features(rows[i].features)
                /\ _extract_feature_vector(rows[i].features) = l})]]

\* _load_or_create_model
_load_or_create_model(b) == IF b.exists THEN b ELSE NoBlob

\* auto_train_if_ready without the cadence test
ReadyIgnoringCadence(rated) == rated >= ReadyClips

\* auto_train_if_ready: the test on get_training_progress()
auto_train_ready(rated) == rated >= ReadyClips /\ rated % Cadence = 0

\* train_from_ratings that appends the rated vectors to the loaded history
FitMergingHistory(data, prepared, min_samples) ==
    LET fits(m) == DataLen(prepared[m]) >= min_samples
    IN  [model_data |->
            [data EXCEPT
                !.model = [m \in Modalities |->
                    IF fits(m) THEN Shape1(prepared[m]) ELSE data.model[m]],
                !.scaler = [m \in Modalities |->
                    IF fits(m) THEN Shape1(prepared[m]) ELSE data.scaler[m]],
                !.training_data = [m \in Modalities |->
                    IF fits(m)
                    THEN [l \in FeatureLens |->
                             data.training_data[m][l] + prepared[m][l]]
                    ELSE data.training_data[m]],
                !.feature_count = [m \in Modalities |->
                    IF fits(m) THEN Shape1(prepared[m])
                    ELSE data.feature_count[m]]],
         trained |-> \E m \in Modalities : fits(m)]

\* train_from_ratings after the load: the two fits on the loaded copy.
\* Returns the copy and whether any modality was trained.
fit_from_ratings(data, prepared, min_samples) ==
    LET fits(m) == DataLen(prepared[m]) >= min_samples
    IN  [model_data |->
            [data EXCEPT
                !.model = [m \in Modalities |->
                    IF fits(m) THEN Shape1(prepared[m]) ELSE data.model[m]],
                !.scaler = [m \in Modalities |->
                    IF fits(m) THEN Shape1(prepared[m]) ELSE data.scaler[m]],
                !.training_data = [m \in Modalities |->
                    IF fits(m) THEN prepared[m] ELSE data.training_data[m]],
                !.feature_count = [m \in Modalities |->
                    IF fits(m) THEN Shape1(prepared[m])
                    ELSE data.feature_count[m]]],
         trained |-> \E m \in Modalities : fits(m)]

NoPrepared == [m \in Modalities |-> EmptyData]

\* train_from_ratings up to and including _load_or_create_model
TrainLoad(rows) ==
    /\ training_data' = prepare_training_data(rows)
    /\ model_data' = _load_or_create_model(blob)
    /\ tpc' = "loaded"

\* rate_clip_handler with a well-formed selection: rate_clip, then
\* auto_train_if_ready, which enters train_from_ratings when ready.
rate_clip_handler(clip_id, rating) ==
    /\ tpc = "idle"
    /\ LET u == update_rating(clips, clip_id, rating)
       IN  /\ clips' = u.rows
           /\ IF u.ok /\ auto_train_ready(rated_clips(u.rows))
              THEN /\ TrainLoad(u.rows)
                   /\ rate_ret' = "auto_training"
              ELSE /\ UNCHANGED <<tpc, training_data, model_data>>
                   /\ rate_ret' = IF u.ok THEN "rated" ELSE "failed"
    /\ UNCHANGED <<wrapVars, filterVars, modelVars, pipeVars>>

\* manual_train_model with the cadence test of auto_train_if_ready added
ManualWithCadence(rated) == rated >= ReadyClips /\ rated % Cadence = 0

\* manual_train_model: the test on progress['ready_for_training']
manual_train_ready(rated) == rated >= ReadyClips

\* manual_train_model: refuses below 10 rated clips, else enters
\* train_from_ratings(min_samples=10) whatever the count
manual_train_model ==
    /\ tpc = "idle"
    /\ IF manual_train_ready(rated_clips(clips))
       THEN /\ TrainLoad(clips)
            /\ rate_ret' = "manual_training"
       ELSE /\ UNCHANGED <<tpc, training_data, model_data>>
            /\ rate_ret' = "not_ready"
    /\ UNCHANGED clips
    /\ UNCHANGED <<wrapVars, filterVars, modelVars, pipeVars>>

\* The rest of train_from_ratings: the fits, then _save_model if any
\* modality was trained.
TrainFit ==
    /\ tpc = "loaded"
    /\ LET r == fit_from_ratings(model_data, training_data, MinSamples)
       IN  /\ blob' = IF r.trained
                      THEN [r.model_data EXCEPT !.exists = TRUE]
                      ELSE blob
           /\ rate_ret' = IF r.trained THEN "trained" ELSE "not_trained"
    /\ tpc' = "idle"
    /\ training_data' = NoPrepared
    /\ model_data' = NoBlob
    /\ UNCHANGED clips
    /\ UNCHANGED <<ml, ret, last, tracks>>
    /\ UNCHANGED <<wrapVars, filterVars, pipeVars>>

\* save_model, first half: open(self.model_path, 'wb') empties the file
SaveOpen ==
    /\ ppc = "fitted"
    /\ blob' = TruncatedBlob
    /\ ppc' = "writing"
    /\ UNCHANGED <<ml, ret, last, tracks>>
    /\ UNCHANGED <<chunk_duration, overlap, current_time, end_time_sec,
                   chunk_index, chunk_info, audio_highlights,
                   video_highlights, max_audio_clips, max_video_clips>>
    /\ UNCHANGED <<wrapVars, filterVars, rateVars>>

\* save_model, second half: pickle.dump has written the whole state
SaveDump ==
    /\ ppc = "writing"
    /\ blob' = save_model(ml)
    /\ ppc' = "idle"
    /\ UNCHANGED <<ml, ret, last, tracks>>
    /\ UNCHANGED <<chunk_duration, overlap, current_time, end_time_sec,
                   chunk_index, chunk_info, audio_highlights,
                   video_highlights, max_audio_clips, max_video_clips>>
    /\ UNCHANGED <<wrapVars, filterVars, rateVars>>

\* The process is started anew: GradioInterface() builds a KickClipGenerator
\* whose MLHighlightModel loads the blob.
Restart ==
    /\ ppc = "idle"
    /\ tpc = "idle"
    /\ ml' = load_model(blob)
    /\ ret' = 0
    /\ last' = "__init__"
    /\ audio_highlights' = <<>>
    /\ video_highlights' = <<>>
    /\ UNCHANGED <<blob, tracks>>
    /\ UNCHANGED <<chunk_duration, overlap, ppc, current_time, end_time_sec,
                   chunk_index, chunk_info, max_audio_clips, max_video_clips>>
    /\ UNCHANGED <<wrapVars, filterVars, rateVars>>

(***************************************************************************)
(* Idle values: what a specification gives the variables it does not use   *)
(***************************************************************************)
FilterIdle ==
    /\ highlights = <<>>
    /\ top_n = 0
    /\ max_clips = NoMaxClips
    /\ min_gap = DefaultMinGap
    /\ result = <<>>
    /\ fpc = "idle"

\* KickClipGenerator() as constructed, no pass started
PassIdle ==
    /\ ppc = "idle"
    /\ current_time = 0
    /\ end_time_sec = 0
    /\ chunk_index = 0
    /\ chunk_info = None
    /\ audio_highlights = <<>>
    /\ video_highlights = <<>>
    /\ max_audio_clips = MAX_CLIPS_PER_TYPE
    /\ max_video_clips = MAX_CLIPS_PER_TYPE

\* StreamProcessor() and KickClipGenerator() as constructed, no pass started
PipeIdle ==
    /\ chunk_duration = DefaultChunkDuration
    /\ overlap = DefaultOverlap
    /\ PassIdle

\* GradioInterface() as constructed, no process_stream_wrapper call running
WrapIdle ==
    /\ processing = FALSE
    /\ wpc = [c \in Calls |-> "idle"]
    /\ wret = [c \in Calls |-> "none"]

\* No rating handler running
TrainerIdle ==
    /\ tpc = "idle"
    /\ training_data = NoPrepared
    /\ model_data = NoBlob
    /\ rate_ret = "none"

\* An empty clips table
RateIdle == clips = <<>> /\ TrainerIdle

\* MLHighlightModel.__init__ with no blob on disk
ModelFresh ==
    /\ blob = NoBlob
    /\ ml = load_model(blob)
    /\ ret = 0
    /\ last = "__init__"

ModelIdle == ModelFresh /\ tracks = {}

(***************************************************************************)
(* SpecFilter: _filter_highlights on every bounded argument tuple          *)
(***************************************************************************)
CandidateLists == UNION {[1..k -> Highlight] : k \in 0..MaxCands}

InitFilter ==
    /\ WrapIdle
    /\ highlights \in CandidateLists
    /\ top_n \in 0..MaxCands
    /\ max_clips \in {NoMaxClips} \cup 0..MaxCands
    /\ min_gap \in 0..MaxTime
    /\ result = <<>>
    /\ fpc = "call"
    /\ ModelIdle
    /\ PipeIdle
    /\ RateIdle

FilterStep ==
    /\ fpc = "call"
    /\ result' = _filter_highlights(highlights, top_n, max_clips, min_gap)
    /\ fpc' = "done"
    /\ UNCHANGED <<highlights, top_n, max_clips, min_gap>>
    /\ UNCHANGED <<modelVars, pipeVars, rateVars, wrapVars>>

NextFilter == FilterStep

SpecFilter == InitFilter /\ [][NextFilter]_vars

(***************************************************************************)
(* SpecModel: one MLHighlightModel, created with no blob on disk, whose    *)
(* methods are called in any order with feature dicts of two shapes for    *)
(* the one modality the stream has a track for.                            *)
(***************************************************************************)
ApiDicts == {FeatureDict("x8", VideoFeatureCount, 0),
             FeatureDict("x17", AudioFeatureCount, 0)}

InitModel ==
    /\ WrapIdle
    /\ FilterIdle
    /\ PipeIdle
    /\ RateIdle
    /\ ModelFresh
    /\ tracks \in {{"audio"}, {"video"}}

NextModel ==
    \/ \E m \in tracks, f \in ApiDicts : CallAdd(f, m)
    \/ \E m \in tracks, f \in ApiDicts : CallPredict(m, f)
    \/ CallRetrain

SpecModel == InitModel /\ [][NextModel]_vars

(***************************************************************************)
(* SpecRetrain: an MLHighlightModel loaded from a blob that an earlier     *)
(* retrain() wrote while both sample lists were still below the threshold, *)
(* then add_training_sample and retrain in any order, both modalities.     *)
(***************************************************************************)
DataOf(nv, na) ==
    [l \in FeatureLens |->
        IF l = VideoFeatureCount THEN nv
        ELSE IF l = AudioFeatureCount THEN na ELSE 0]

\* Sample lists one or two short of the threshold, of one shape or mixed
StartData ==
    {DataOf(MinSamples - 1, 0), DataOf(0, MinSamples - 1),
     DataOf(MinSamples - 2, 1), DataOf(1, MinSamples - 2)}

StartBlobs ==
    {save_model([NewModel EXCEPT !.training_data = d]) :
        d \in [Modalities -> StartData]}

InitRetrain ==
    /\ WrapIdle
    /\ FilterIdle
    /\ PipeIdle
    /\ RateIdle
    /\ blob \in StartBlobs
    /\ ml = load_model(blob)
    /\ ret = 0
    /\ last = "__init__"
    /\ tracks = Modalities

NextRetrain ==
    \/ \E m \in tracks, f \in ApiDicts : CallAdd(f, m)
    \/ CallRetrain

SpecRetrain == InitRetrain /\ [][NextRetrain]_vars

(***************************************************************************)
(* SpecPipeline: process_stream passes of a generator whose model was      *)
(* loaded from the blob of earlier passes, on streams of one or two        *)
(* windows.                                                                *)
(***************************************************************************)
AudioDicts == {FeatureDict("a20", AudioFeatureCount, 20)}
VideoDicts == {FeatureDict("v20", VideoFeatureCount, 20)}

\* The blob an earlier pass left: samples of the stream's own shapes, n per
\* modality, fitted when that reached the threshold.
StreamBlob(n) ==
    save_model(retrain_fit(
        [NewModel EXCEPT
            !.training_data =
                [m \in Modalities |->
                    IF m = "audio" THEN DataOf(0, n) ELSE DataOf(n, 0)]]).self)

Durations == {40, 80}
Minutes == {None, Some(0), Some(1)}
ClipLimits == {1, MAX_CLIPS_PER_TYPE + 5}

InitPipeline ==
    /\ WrapIdle
    /\ FilterIdle
    /\ PipeIdle
    /\ RateIdle
    /\ blob \in {StreamBlob(MinSamples - 1), StreamBlob(MinSamples)}
    /\ ml = load_model(blob)
    /\ ret = 0
    /\ last = "__init__"
    /\ tracks = Modalities

NextPipeline ==
    \/ \E info \in {None} \cup {Some(d) : d \in Durations},
          sm \in Minutes, em \in Minutes, mac \in ClipLimits,
          mvc \in ClipLimits :
          StartPass(info, sm, em, mac, mvc)
    \/ \E success \in BOOLEAN,
          af \in {None} \cup {Some(d) : d \in AudioDicts},
          vf \in {None} \cup {Some(d) : d \in VideoDicts} :
          NextChunk(success, af, vf)
    \/ EndLoop
    \/ SavePass

SpecPipeline == InitPipeline /\ [][NextPipeline]_vars

(***************************************************************************)
(* SpecRating: the Gradio process: ratings on a clips table close to a     *)
(* training count, the two training triggers, stream passes, and restarts  *)
(* of the process.  Handlers of different events run concurrently.         *)
(***************************************************************************)
Repeat(row, n) == [i \in 1..n |-> row]

AudioClip(rating) == Row(FeatureDict("a20", AudioFeatureCount, 20), rating)
VideoClip(rating) == Row(FeatureDict("v20", VideoFeatureCount, 20), rating)

\* Tables one rating short of a training count, with two unrated clips
StartTables ==
    {Repeat(AudioClip(4), ReadyClips - 1) \o Repeat(AudioClip(NoRating), 2),
     Repeat(VideoClip(4), ReadyClips) \o Repeat(AudioClip(4), Cadence - 1)
         \o Repeat(AudioClip(NoRating), 2),
     Repeat(AudioClip(4), Cadence) \o Repeat(VideoClip(4), Cadence - 1)
         \o <<AudioClip(NoRating), VideoClip(NoRating)>>}

\* Clip ids the reviewer submits: the unrated ones, one rated, one unknown
RateIds(rows) ==
    {1, Len(rows) + 1} \cup {i \in DOMAIN rows : rows[i].rating = NoRating}

InitRating ==
    /\ WrapIdle
    /\ FilterIdle
    /\ PipeIdle
    /\ TrainerIdle
    /\ clips \in StartTables
    /\ blob \in {NoBlob, StreamBlob(MinSamples)}
    /\ ml = load_model(blob)
    /\ ret = 0
    /\ last = "__init__"
    /\ tracks = Modalities

NextRating ==
    \/ \E id \in RateIds(clips) : rate_clip_handler(id, 5)
    \/ manual_train_model
    \/ TrainFit
    \/ StartPass(Some(80), None, None, MAX_CLIPS_PER_TYPE, MAX_CLIPS_PER_TYPE)
    \/ NextChunk(TRUE, Some(FeatureDict("a20", AudioFeatureCount, 20)),
                 Some(FeatureDict("v20", VideoFeatureCount, 20)))
    \/ EndLoop
    \/ SavePass
    \/ Restart

SpecRating == InitRating /\ [][NextRating]_vars

(***************************************************************************)
(* SpecChunks: process_stream_chunks on its own: a StreamProcessor of any   *)
(* small chunk length and overlap, or the default one, walks ranges of a   *)
(* stream whose chunks all download and carry no feature dict.             *)
(***************************************************************************)
MaxChunk == 4       \* chunk lengths 1..MaxChunk besides the default
MaxDur == 10        \* durations 1..MaxDur for the small chunk lengths

\* Durations probed with the default chunk length: around one and two
\* strides, and beyond config.MAX_STREAM_DURATION
LongDurations == {40, 44, 80, 86, 88, 130, MAX_STREAM_DURATION + 100}

ChunkDurations ==
    IF chunk_duration = DefaultChunkDuration THEN LongDurations
    ELSE 1..MaxDur

ChunkMinutes == {None, Some(-1), Some(0), Some(1), Some(2)}

InitChunks ==
    /\ WrapIdle
    /\ FilterIdle
    /\ ModelFresh
    /\ tracks = {}
    /\ RateIdle
    /\ PassIdle
    /\ \/ chunk_duration = DefaultChunkDuration /\ overlap = DefaultOverlap
       \/ chunk_duration \in 1..MaxChunk /\ overlap \in 0..(chunk_duration - 1)

NextChunks ==
    \/ \E d \in ChunkDurations, sm \in ChunkMinutes, em \in ChunkMinutes :
          StartPass(Some(d), sm, em, MAX_CLIPS_PER_TYPE, MAX_CLIPS_PER_TYPE)
    \/ NextChunk(TRUE, None, None)
    \/ EndLoop
    \/ SavePass

SpecChunks == InitChunks /\ [][NextChunks]_vars

(***************************************************************************)
(* SpecOutcomes: process_stream_chunks as in SpecChunks, with every chunk  *)
(* download free to succeed or to fail, on streams no longer than          *)
(* config.MAX_STREAM_DURATION.                                             *)
(***************************************************************************)
\* Whole-stream requests for the default chunk length, any range otherwise
OutcomeMinutes ==
    IF chunk_duration = DefaultChunkDuration THEN {None} ELSE ChunkMinutes

\* Durations within config.MAX_STREAM_DURATION
OutcomeDurations == {d \in ChunkDurations : d <= MAX_STREAM_DURATION}

NextOutcomes ==
    \/ \E d \in OutcomeDurations, sm \in OutcomeMinutes, em \in OutcomeMinutes :
          StartPass(Some(d), sm, em, MAX_CLIPS_PER_TYPE, MAX_CLIPS_PER_TYPE)
    \/ \E success \in BOOLEAN : NextChunk(success, None, None)
    \/ EndLoop
    \/ SavePass

SpecOutcomes == InitChunks /\ [][NextOutcomes]_vars

(***************************************************************************)
(* SpecDrift: process_stream passes of ten or eleven windows by a          *)
(* generator whose blob holds audio samples of an earlier vector length,   *)
(* fewer than ten (never fitted) or ten (fitted).  A pass that has begun   *)
(* runs on until process_stream returns.                                   *)
(***************************************************************************)
\* The blob of an extractor that produced audio vectors of length old: k
\* samples, fitted when that reached the threshold.
DriftBlob(old, k) ==
    save_model(retrain_fit(
        [NewModel EXCEPT
            !.training_data["audio"] = [EmptyData EXCEPT ![old] = k]]).self)

DriftDurations == {400, 430}

InitDrift ==
    /\ WrapIdle
    /\ FilterIdle
    /\ PipeIdle
    /\ RateIdle
    /\ blob \in {DriftBlob(old, k) :
                    old \in FeatureLens \ {AudioFeatureCount},
                    k \in 1..MinSamples}
    /\ ml = load_model(blob)
    /\ ret = 0
    /\ last = "__init__"
    /\ tracks = {"audio"}

PassStep ==
    \/ \E af \in AudioDicts : NextChunk(TRUE, Some(af), None)
    \/ EndLoop
    \/ SavePass

NextDrift ==
    \/ \E d \in DriftDurations :
          StartPass(Some(d), None, None, MAX_CLIPS_PER_TYPE,
                    MAX_CLIPS_PER_TYPE)
    \/ PassStep

\* process_stream returns: after retrain() saved, or when its fit raised
PassReturns == ppc # "idle" /\ ppc' = "idle"

SpecDrift == InitDrift /\ [][NextDrift]_vars /\ WF_ppc(PassReturns)

(***************************************************************************)
(* SpecGap: process_stream passes of a KickClipGenerator constructed with  *)
(* any min_gap the command line accepts, negative and zero included.       *)
(***************************************************************************)
\* Values of --min-gap (type=int, no range check)
GapValues == {-5, 0, DefaultMinGap}

InitGap ==
    /\ WrapIdle
    /\ highlights = <<>>
    /\ top_n = 0
    /\ max_clips = NoMaxClips
    /\ min_gap \in GapValues
    /\ result = <<>>
    /\ fpc = "idle"
    /\ PipeIdle
    /\ RateIdle
    /\ blob \in {NoBlob, StreamBlob(MinSamples)}
    /\ ml = load_model(blob)
    /\ ret = 0
    /\ last = "__init__"
    /\ tracks = Modalities

NextGap ==
    \/ \E d \in Durations, mac \in ClipLimits :
          StartPass(Some(d), None, None, mac, MAX_CLIPS_PER_TYPE)
    \/ \E success \in BOOLEAN,
          vf \in {None} \cup {Some(d) : d \in VideoDicts} :
          NextChunk(success, Some(FeatureDict("a20", AudioFeatureCount, 20)),
                    vf)
    \/ EndLoop
    \/ SavePass

SpecGap == InitGap /\ [][NextGap]_vars

(***************************************************************************)
(* SpecCrash: process_stream passes with save_model in its two steps, and  *)
(* a process that may die at any statement and start again.                *)
(***************************************************************************)
\* The process dies at any statement and is started again: a new
\* KickClipGenerator whose MLHighlightModel loads whatever is on disk.
Crash ==
    /\ ml' = load_model(blob)
    /\ ret' = 0
    /\ last' = "restart"
    /\ ppc' = "idle"
    /\ current_time' = 0
    /\ end_time_sec' = 0
    /\ chunk_index' = 0
    /\ chunk_info' = None
    /\ audio_highlights' = <<>>
    /\ video_highlights' = <<>>
    /\ max_audio_clips' = MAX_CLIPS_PER_TYPE
    /\ max_video_clips' = MAX_CLIPS_PER_TYPE
    /\ UNCHANGED <<blob, tracks, chunk_duration, overlap>>
    /\ UNCHANGED <<wrapVars, filterVars, rateVars>>

InitCrash ==
    /\ WrapIdle
    /\ FilterIdle
    /\ PipeIdle
    /\ RateIdle
    /\ blob \in {StreamBlob(MinSamples - 1), StreamBlob(MinSamples)}
    /\ ml = load_model(blob)
    /\ ret = 0
    /\ last = "__init__"
    /\ tracks = Modalities

NextCrash ==
    \/ \E d \in Durations :
          StartPass(Some(d), None, None, MAX_CLIPS_PER_TYPE,
                    MAX_CLIPS_PER_TYPE)
    \/ \E success \in BOOLEAN :
          NextChunk(success, Some(FeatureDict("a20", AudioFeatureCount, 20)),
                    Some(FeatureDict("v20", VideoFeatureCount, 20)))
    \/ EndLoop
    \/ SaveOpen
    \/ SaveDump
    \/ Crash

SpecCrash == InitCrash /\ [][NextCrash]_vars

(***************************************************************************)
(* SpecWrapper: process_stream_wrapper calls of one GradioInterface, each  *)
(* in its own worker thread, interleaved statement by statement.  The      *)
(* analysis section is one step.                                           *)
(***************************************************************************)
StreamUrls == {"", "url"}

\* The two tests at the head of the wrapper: an empty URL and a set flag
\* both return at once.
WrapperTest(c, stream_url) ==
    /\ wpc[c] = "idle"
    /\ IF stream_url = ""
       THEN /\ wret' = [wret EXCEPT ![c] = "no_url"]
            /\ UNCHANGED wpc
       ELSE IF processing
       THEN /\ wret' = [wret EXCEPT ![c] = "already_processing"]
            /\ UNCHANGED wpc
       ELSE /\ wpc' = [wpc EXCEPT ![c] = "test"]
            /\ wret' = [wret EXCEPT ![c] = "none"]
    /\ UNCHANGED processing
    /\ UNCHANGED <<filterVars, modelVars, pipeVars, rateVars>>

\* self.processing = True
WrapperEnter(c) ==
    /\ wpc[c] = "test"
    /\ processing' = TRUE
    /\ wpc' = [wpc EXCEPT ![c] = "analysis"]
    /\ UNCHANGED wret
    /\ UNCHANGED <<filterVars, modelVars, pipeVars, rateVars>>

\* The try block to its return or its except, then finally:
\* self.processing = False
WrapperFinally(c) ==
    /\ wpc[c] = "analysis"
    /\ processing' = FALSE
    /\ wpc' = [wpc EXCEPT ![c] = "idle"]
    /\ wret' = [wret EXCEPT ![c] = "summary"]
    /\ UNCHANGED <<filterVars, modelVars, pipeVars, rateVars>>

InitWrapper ==
    /\ WrapIdle
    /\ FilterIdle
    /\ ModelIdle
    /\ PipeIdle
    /\ RateIdle

NextWrapper ==
    \/ \E c \in Calls, u \in StreamUrls : WrapperTest(c, u)
    \/ \E c \in Calls : WrapperEnter(c)
    \/ \E c \in Calls : WrapperFinally(c)

SpecWrapper == InitWrapper /\ [][NextWrapper]_vars

(***************************************************************************)
(* Claims                                                                  *)
(***************************************************************************)
\* C1: the list returned by _filter_highlights is sorted by start_time
\* ascending and holds no two candidates whose start times differ by less
\* than min_gap, for every candidate list, min_gap and top_n.
C1_SortedAndGapped ==
    fpc = "done" =>
        /\ \A i \in 1..(Len(result) - 1) :
               result[i].start_time <= result[i + 1].start_time
        /\ \A i, j \in 1..Len(result) :
               i # j => Abs(result[i].start_time - result[j].start_time) >= min_gap

\* C1 witness: a call that rejected a too-close candidate and returned two
\* others in an order different from their score order.
C1_Witness ==
    /\ fpc = "done"
    /\ Len(highlights) = 3
    /\ Len(result) = 2
    /\ min_gap > 0
    /\ result[1].score < result[2].score

\* C2 (as claimed): _filter_highlights returns at most min(top_n, max_clips)
\* candidates for every top_n and max_clips >= 0.
C2_AtMostLimit ==
    fpc = "done" => Len(result) <= EffectiveTopN(top_n, max_clips)

\* C3 (as claimed): predict_audio_score and predict_video_score return a
\* value >= 0, and exactly 0 whenever the modality is Untrained or holds
\* fewer than 10 samples, whatever the feature dict; so also after a reset
\* until the next retrain.
C3_PredictZeroUnlessTrained ==
    [][\A m \in Modalities, f \in ApiDicts :
          CallPredict(m, f) =>
              /\ ret' >= 0
              /\ (~Trained(ml, m) => ret' = 0)]_vars

\* The modality is reset: ensemble, standardization, fitted flag, samples
\* and expected feature count all cleared.
IsReset(self, m) ==
    /\ self.model[m] = 0
    /\ self.scaler[m] = 0
    /\ ~self.scaler_fitted[m]
    /\ self.training_data[m] = EmptyData
    /\ self.expected_features[m] = 0

\* C4 (as claimed): while a modality is Trained on vectors of length n, a
\* predict call with a vector of another length resets the modality and
\* returns 0.
C4_MismatchResets ==
    [][\A m \in Modalities, f \in ApiDicts :
          (CallPredict(m, f) /\ Trained(ml, m) /\ Mismatch(ml, m, f)) =>
              (ret' = 0 /\ IsReset(ml', m))]_vars

Range(seq) == {seq[i] : i \in DOMAIN seq}

\* C5: every candidate of a pass, audio or video, has the score
\* 0.6*h + 0.4*m when the model prediction m is > 0 and exactly h otherwise,
\* h being the heuristic score of its feature vector (h and m in tenths, the
\* score in hundredths); h = 2.0 with m = 0.0 gives 2.0, with m = 1.0 gives 1.6.
C5_BlendedScore ==
    \A hl \in Range(audio_highlights) \cup Range(video_highlights) :
        LET h == detect_highlights(hl.features)
            m == hl.ml_score
        IN  /\ m > 0 => hl.score = 6 * h + 4 * m
            /\ ~(m > 0) => hl.score = 10 * h
            /\ (h = 20 /\ m = 0) => hl.score = 200
            /\ (h = 20 /\ m = 10) => hl.score = 160

\* A pass scored a window with the model answering 1.0 for the audio dict
\* and 0.0 for the video dict, both of heuristic score 2.0.
C5_Witness ==
    /\ ppc = "chunks"
    /\ \E hl \in Range(audio_highlights) :
           hl.features.h = 20 /\ hl.ml_score = 10 /\ hl.score = 160
    /\ \E hl \in Range(video_highlights) :
           hl.features.h = 20 /\ hl.ml_score = 0 /\ hl.score = 200

\* C6 (as claimed): retrain() leaves a modality holding exactly 9 samples
\* unchanged, and makes a modality holding exactly 10 samples (of one
\* length) Trained with that length as its expected feature count.
C6_ThresholdRetrain ==
    [][CallRetrain =>
          \A m \in Modalities :
              /\ DataLen(ml.training_data[m]) = MinSamples - 1 =>
                     /\ ml'.scaler_fitted[m] = ml.scaler_fitted[m]
                     /\ ml'.expected_features[m] = ml.expected_features[m]
                     /\ ml'.scaler[m] = ml.scaler[m]
                     /\ ml'.model[m] = ml.model[m]
              /\ (DataLen(ml.training_data[m]) = MinSamples
                     /\ ~Ragged(ml.training_data[m])) =>
                     /\ ml'.scaler_fitted[m]
                     /\ ml'.expected_features[m] = Shape1(ml.training_data[m])]_vars

\* C7 (as claimed): when the fit of one modality raises in retrain(), the
\* other modality, holding at least 10 samples of one length, still
\* becomes Trained and is persisted.
C7_FitFailureIsolated ==
    [][CallRetrain =>
          \A m \in Modalities, o \in Modalities :
              (/\ o # m
               /\ DataLen(ml.training_data[m]) >= MinSamples
               /\ Ragged(ml.training_data[m])
               /\ DataLen(ml.training_data[o]) >= MinSamples
               /\ ~Ragged(ml.training_data[o])) =>
                  /\ ml'.scaler_fitted[o]
                  /\ ml'.expected_features[o] = Shape1(ml.training_data[o])
                  /\ blob'.exists
                  /\ blob'.feature_count[o] = Shape1(ml.training_data[o])
                  /\ blob'.model[o] = Shape1(ml.training_data[o])
                  /\ blob'.training_data[o] = ml.training_data[o]]_vars

\* The blob holds, for modality m, the model a rating-based retrain fitted.
RatingModelPersisted(m) ==
    /\ blob.exists
    /\ blob.model[m] = RatingFeatureCount
    /\ blob.feature_count[m] = RatingFeatureCount

\* The generator's model of modality m is the rating-derived one, Trained.
RatingModelLoaded(self, m) ==
    /\ self.model[m] = RatingFeatureCount
    /\ self.expected_features[m] = RatingFeatureCount
    /\ Trained(self, m)

PassHighlights(m) == IF m = "audio" THEN audio_highlights ELSE video_highlights

\* C8 (as claimed): when a pass starts while the persisted model of a
\* modality is the one a rating-based retrain fitted, the generator's model
\* of that modality is that rating-derived model, Trained; and the first
\* prediction of the pass for that modality leaves it in place (no reset).
C8_PassUsesRatingModel ==
    [][\A m \in Modalities :
          /\ (ppc = "idle" /\ ppc' = "chunks" /\ RatingModelPersisted(m)) =>
                 RatingModelLoaded(ml, m)
          /\ (/\ ppc = "chunks"
              /\ PassHighlights(m) = <<>>
              /\ Len(PassHighlights(m)') = 1
              /\ RatingModelLoaded(ml, m)) =>
                 RatingModelLoaded(ml', m)]_vars

\* C9 (as claimed): for no modality are train_from_ratings and the stream
\* pass's retrain-then-save_model both between their read and their write
\* of that modality's model state, and train_from_ratings never writes the
\* blob from a copy that is no longer what the blob holds.
C9_RetrainsExclusive ==
    /\ [](\A m \in Modalities :
             ~(/\ tpc = "loaded"
               /\ DataLen(training_data[m]) >= MinSamples
               /\ ppc = "fitted"
               /\ DataLen(ml.training_data[m]) >= MinSamples))
    /\ [][(tpc = "loaded" /\ tpc' = "idle" /\ blob' # blob) =>
              model_data = _load_or_create_model(blob)]_vars

\* A step of rate_clip_handler in which rate_clip returned True
RatingSubmitted ==
    /\ tpc = "idle"
    /\ rate_ret' \in {"rated", "auto_training"}
    /\ <<clips, rate_ret, tpc>>' # <<clips, rate_ret, tpc>>

\* C10: a successful rating submission enters train_from_ratings exactly
\* when the rated-clip count after it is at least 10 and a multiple of 5
\* (10, 15, ...), and at no other count (11, 16, ...).
C10_AutoTrainCadence ==
    [][RatingSubmitted =>
          LET n == rated_clips(clips')
          IN  (rate_ret' = "auto_training" /\ tpc' = "loaded")
                  <=> (n >= 10 /\ n % 5 = 0)]_vars

\* A rating brought the count to 15 and the automatic retrain is running.
C10_Witness ==
    /\ rate_ret = "auto_training"
    /\ tpc = "loaded"
    /\ rated_clips(clips) = 15

\* C11: manual_train_model enters train_from_ratings exactly when the
\* rated-clip count is at least 10, multiple of 5 or not; below 10 it starts
\* no training and changes neither the blob nor the generator's model.
C11_ManualIgnoresCadence ==
    [][manual_train_model =>
          LET n == rated_clips(clips)
          IN  /\ n >= 10 => (tpc' = "loaded" /\ rate_ret' = "manual_training")
              /\ n < 10 => (/\ tpc' = "idle"
                            /\ rate_ret' = "not_ready"
                            /\ blob' = blob
                            /\ ml' = ml)]_vars

\* The manual trigger started a training at 11 rated clips.
C11_Witness ==
    /\ rate_ret = "manual_training"
    /\ tpc = "loaded"
    /\ rated_clips(clips) = 11

\* Number of rated clips whose feature dict is of modality m
RatedOf(rows, m) ==
    Cardinality({i \in DOMAIN rows :
        /\ rows[i].rating # NoRating
        /\ (m = "audio") = _is_audio_features(rows[i].features)})

\* C12: when train_from_ratings returns True, each modality with at least
\* 10 rated vectors has its persisted ensemble, standardization, expected
\* feature count and sample history built from the rated clips only (as
\* many samples as rated clips of the modality, none of the loaded history),
\* and each modality below 10 has persisted exactly what was loaded.
C12_RatingsReplaceHistory ==
    [][(TrainFit /\ rate_ret' = "trained") =>
          \A m \in Modalities :
              /\ RatedOf(clips, m) >= 10 =>
                     /\ blob'.model[m] = RatingFeatureCount
                     /\ blob'.scaler[m] = RatingFeatureCount
                     /\ blob'.feature_count[m] = RatingFeatureCount
                     /\ blob'.training_data[m][RatingFeatureCount]
                            = RatedOf(clips, m)
                     /\ DataLen(blob'.training_data[m]) = RatedOf(clips, m)
              /\ RatedOf(clips, m) < 10 =>
                     /\ blob'.model[m] = model_data.model[m]
                     /\ blob'.scaler[m] = model_data.scaler[m]
                     /\ blob'.feature_count[m] = model_data.feature_count[m]
                     /\ blob'.training_data[m] = model_data.training_data[m]]_vars

\* A rating-based training replaced the audio history of stream samples by
\* the rated clips and left the persisted video model as loaded.
C12_Witness ==
    /\ rate_ret = "trained"
    /\ blob.model["audio"] = RatingFeatureCount
    /\ blob.training_data["audio"][AudioFeatureCount] = 0
    /\ blob.training_data["audio"][RatingFeatureCount] >= MinSamples
    /\ blob.model["video"] = VideoFeatureCount
    /\ blob.training_data["video"][VideoFeatureCount] >= MinSamples

\* start_time_sec of the running pass: the loop adds L - O per iteration
StartBound == current_time - chunk_index * (chunk_duration - overlap)

\* The loop iteration yields a window (the download succeeded).
Yields == ppc = "chunks" /\ chunk_index' = chunk_index + 1 /\ chunk_info' # None
             /\ chunk_info'[1].index = chunk_index

\* The window yielded by the iteration before this one, if it yielded
PrevYielded == chunk_info # None /\ chunk_info[1].index = chunk_index - 1

\* C13 (as claimed): with every download succeeding, the first window
\* begins at the start bound, consecutive windows begin exactly L - O apart
\* and leave no gap, the last window ends at the end bound, and a window
\* that is followed by another one has the full length L.
C13_WindowsTile ==
    [][/\ (Yields /\ chunk_index = 0) =>
              chunk_info'[1].start_time = StartBound
       /\ (Yields /\ PrevYielded) =>
              /\ chunk_info'[1].start_time
                     = chunk_info[1].start_time + chunk_duration - overlap
              /\ chunk_info'[1].start_time <= chunk_info[1].end_time
              /\ chunk_info[1].end_time - chunk_info[1].start_time
                     = chunk_duration
       /\ (ppc = "chunks" /\ ppc' # "chunks" /\ PrevYielded) =>
              chunk_info[1].end_time = end_time_sec]_vars

\* The requested start and end in seconds, clamped to [0, duration]
ClampedStart(start_minute) ==
    IF start_minute = None THEN 0 ELSE Max(0, start_minute[1] * 60)

ClampedEnd(duration, end_minute) ==
    IF end_minute = None THEN duration ELSE Min(duration, end_minute[1] * 60)

\* C14: every yielded window lies inside the processed range, which ends no
\* later than MAX_STREAM_DURATION after the start bound, and is at most L
\* long; a request with start < end is processed from its start bound to
\* the earlier of its end bound and start + MAX_STREAM_DURATION.
C14_WindowsInRange ==
    [][/\ Yields =>
             /\ StartBound <= chunk_info'[1].start_time
             /\ chunk_info'[1].start_time < chunk_info'[1].end_time
             /\ chunk_info'[1].end_time <= end_time_sec
             /\ end_time_sec <= StartBound + 36000
             /\ chunk_info'[1].end_time - chunk_info'[1].start_time
                    <= chunk_duration
       /\ (ppc = "idle" /\ ppc' = "chunks") =>
             \A d \in ChunkDurations, sm \in ChunkMinutes,
                em \in ChunkMinutes :
                \/ /\ current_time' = ClampedStart(sm)
                   /\ end_time_sec' = Min(ClampedEnd(d, em),
                                          ClampedStart(sm) + 36000)
                   /\ current_time' < end_time_sec'
                \/ ~(ClampedStart(sm) < ClampedEnd(d, em))
                \/ ~StartPass(Some(d), sm, em, MAX_CLIPS_PER_TYPE,
                              MAX_CLIPS_PER_TYPE)]_vars

\* The last window of a range that was cut to MAX_STREAM_DURATION seconds
\* after its start bound at 60 s.
C14_Witness ==
    /\ chunk_info # None
    /\ StartBound = 60
    /\ end_time_sec = 60 + MAX_STREAM_DURATION
    /\ chunk_info[1].end_time = end_time_sec

\* C15: a request whose clamped start is not below its clamped end makes
\* process_stream_chunks yield no window, and the process_stream run around
\* it builds no candidate, adds no training sample and returns two empty
\* lists.
C15_EmptyRangeYieldsNothing ==
    [][/\ (ppc = "idle" /\ ppc' = "chunks") =>
             \/ /\ current_time' >= end_time_sec'
                /\ chunk_index' = 0
                /\ chunk_info' = None
                /\ audio_highlights' = <<>>
                /\ video_highlights' = <<>>
                /\ ml' = ml
             \/ \A d \in Durations, sm \in Minutes, em \in Minutes,
                   mac \in ClipLimits, mvc \in ClipLimits :
                   \/ ClampedStart(sm) < ClampedEnd(d, em)
                   \/ ~StartPass(Some(d), sm, em, mac, mvc)
       /\ (ppc = "chunks" /\ chunk_index = 0
              /\ current_time >= end_time_sec) =>
             /\ chunk_index' = 0
             /\ chunk_info' = None
             /\ ml'.training_data = ml.training_data
             /\ ppc' \in {"idle", "fitted"}
             /\ audio_highlights' = <<>>
             /\ video_highlights' = <<>>]_vars

\* process_stream returned from a pass over minutes 1.. of a 40 s stream:
\* no window, no candidate, the loaded samples as they were.
C15_Witness ==
    /\ ppc # "chunks"
    /\ current_time = 60
    /\ end_time_sec = 40
    /\ chunk_index = 0
    /\ chunk_info = None
    /\ audio_highlights = <<>>
    /\ video_highlights = <<>>
    /\ ml.training_data = blob.training_data

RECURSIVE ReferenceAccept(_, _, _, _, _)
\* The reference selection over candidates already in descending score
\* order: stop once n are accepted, else accept the next candidate iff it is
\* at least gap away from every accepted one.
ReferenceAccept(sorted, i, accepted, n, gap) ==
    IF Len(accepted) >= n \/ i > Len(sorted) THEN accepted
    ELSE LET h == sorted[i]
             far == \A j \in 1..Len(accepted) :
                       Abs(h.start_time - accepted[j].start_time) >= gap
         IN ReferenceAccept(sorted, i + 1,
                            IF far THEN Append(accepted, h) ELSE accepted,
                            n, gap)

ReferenceGreedy(hs, n, gap) ==
    SortByStartAsc(ReferenceAccept(SortByScoreDesc(hs), 1, <<>>, n, gap))

\* C16: the list _filter_highlights returns is the reference greedy
\* selection for the limit in force (top_n, lowered to max_clips when one
\* is given).
C16_EqualsReferenceGreedy ==
    fpc = "done" =>
        result = ReferenceGreedy(highlights, EffectiveTopN(top_n, max_clips),
                                 min_gap)

\* The same comparison for limits above zero.
C16_EqualsReferenceAboveZero ==
    (fpc = "done" /\ EffectiveTopN(top_n, max_clips) >= 1) =>
        result = ReferenceGreedy(highlights, EffectiveTopN(top_n, max_clips),
                                 min_gap)

\* C17: _filter_highlights applied to its own result, with the same top_n,
\* max_clips and min_gap, returns that result: same candidates, same order.
C17_FilterIdempotent ==
    fpc = "done" =>
        _filter_highlights(result, top_n, max_clips, min_gap) = result

\* A call that dropped a candidate and kept two, at equal scores.
C17_Witness ==
    /\ fpc = "done"
    /\ Len(result) = 2
    /\ Len(highlights) = 3
    /\ min_gap = 2
    /\ result[1].score = result[2].score
    /\ _filter_highlights(result, top_n, max_clips, min_gap) = result

\* C18: in a pass, each window adds, for each modality whose feature dict
\* is present, one candidate to that modality's list and one sample, the
\* candidate's vector, to that modality's accumulator (emptied first when
\* the prediction before it reset the modality), and nothing for a modality
\* without features or a window that was not yielded; the selection at the
\* end of the pass removes candidates and no sample.
C18_OneSamplePerCandidate ==
    [][/\ (ppc = "chunks" /\ chunk_index' = chunk_index + 1) =>
             \A m \in Modalities :
                \/ /\ PassHighlights(m)' = PassHighlights(m)
                   /\ ml'.training_data[m] = ml.training_data[m]
                \/ /\ Len(PassHighlights(m)') = Len(PassHighlights(m)) + 1
                   /\ SubSeq(PassHighlights(m)', 1, Len(PassHighlights(m)))
                         = PassHighlights(m)
                   /\ LET c == PassHighlights(m)'[Len(PassHighlights(m)')]
                          n == _dict_to_vector(c.features)
                      IN  /\ c.type = m
                          /\ c.start_time = current_time
                          /\ \/ ml'.training_data[m] =
                                   [ml.training_data[m] EXCEPT ![n] = @ + 1]
                             \/ ml'.training_data[m] =
                                   [EmptyData EXCEPT ![n] = 1]
       /\ (ppc = "chunks" /\ ppc' # "chunks") =>
             /\ ml'.training_data = ml.training_data
             /\ \A m \in Modalities :
                   Len(PassHighlights(m)') <= Len(PassHighlights(m))]_vars

\* A pass of two windows returned one audio highlight of two candidates and
\* one video highlight, after two audio samples and one video sample were
\* added to the loaded ones.
C18_Witness ==
    /\ ppc = "fitted"
    /\ chunk_index = 2
    /\ Len(audio_highlights) = 1
    /\ Len(video_highlights) = 1
    /\ DataLen(ml.training_data["audio"])
          = DataLen(blob.training_data["audio"]) + 2
    /\ DataLen(ml.training_data["video"])
          = DataLen(blob.training_data["video"]) + 1

\* C19 (as claimed): once a pass has processed at least ten chunks whose
\* audio vectors have the new length, on a model that was Trained on
\* another length or Untrained with fewer than ten samples of another
\* length, the retrain that follows leaves audio Trained with the new length
\* as its expected feature count.
C19_DriftRepaired ==
    (ppc = "chunks" /\ chunk_index >= MinSamples
        /\ current_time >= end_time_sec)
    ~> (Trained(ml, "audio")
           /\ ml.expected_features["audio"] = AudioFeatureCount)

\* C20: rating a clip that already has a rating overwrites that rating:
\* the table keeps its length and its number of rated clips, no other row
\* and no other field changes, and the training data read afterwards holds
\* one pair for that clip, with the new rating.
C20_ReRatingOverwrites ==
    [][(/\ tpc = "idle"
        /\ clips # <<>>
        /\ clips[1].rating # NoRating
        /\ rate_clip_handler(1, 5)) =>
          /\ Len(clips') = Len(clips)
          /\ rated_clips(clips') = rated_clips(clips)
          /\ clips'[1].rating = 5
          /\ clips'[1].features = clips[1].features
          /\ \A i \in DOMAIN clips \ {1} : clips'[i] = clips[i]
          /\ LET before == get_training_data(clips)
                 after == get_training_data(clips')
             IN  /\ Len(after) = Len(before)
                 /\ after[Len(after)] = <<clips[1].features, 5>>
                 /\ \A i \in 1..(Len(after) - 1) : after[i] = before[i]]_vars

\* Clip 1, rated 4 at first, was rated again with 5: nine rated clips as
\* before and nine training pairs, the oldest one with rating 5.
C20_Witness ==
    /\ rate_ret = "rated"
    /\ clips # <<>>
    /\ clips[1].rating = 5
    /\ rated_clips(clips) = ReadyClips - 1
    /\ Len(get_training_data(clips)) = ReadyClips - 1
    /\ get_training_data(clips)[ReadyClips - 1][2] = 5

\* C21: a window whose download fails adds no candidate, a window whose
\* audio (video) extraction fails adds no audio (video) candidate and still
\* adds the other one; either way the loop goes on one stride later with
\* the candidates of the earlier windows in place, and the lists returned
\* at the end of the pass are the selection among all of them.
C21_FailedWindowSkipped ==
    [][/\ (ppc = "chunks" /\ chunk_index' = chunk_index + 1) =>
             /\ current_time' = current_time + (chunk_duration - overlap)
             /\ ppc' = "chunks"
             /\ \A m \in Modalities :
                   SubSeq(PassHighlights(m)', 1, Len(PassHighlights(m)))
                       = PassHighlights(m)
             /\ \A af \in {None} \cup {Some(d) : d \in AudioDicts},
                   vf \in {None} \cup {Some(d) : d \in VideoDicts} :
                   /\ NextChunk(FALSE, af, vf) =>
                         /\ audio_highlights' = audio_highlights
                         /\ video_highlights' = video_highlights
                   /\ NextChunk(TRUE, af, vf) =>
                         /\ Len(audio_highlights') = Len(audio_highlights)
                               + (IF af = None THEN 0 ELSE 1)
                         /\ Len(video_highlights') = Len(video_highlights)
                               + (IF vf = None THEN 0 ELSE 1)
       /\ (ppc = "chunks" /\ ppc' # "chunks") =>
             \A m \in Modalities :
                /\ PassHighlights(m) # <<>> => PassHighlights(m)' # <<>>
                /\ \A i \in 1..Len(PassHighlights(m)') :
                      \E j \in 1..Len(PassHighlights(m)) :
                         PassHighlights(m)'[i] = PassHighlights(m)[j]]_vars

\* A pass of two windows returned the audio highlight of the second window
\* and the video highlight of the first: the other two were never built.
C21_Witness ==
    /\ ppc # "chunks"
    /\ chunk_index = 2
    /\ max_audio_clips = MAX_CLIPS_PER_TYPE
    /\ max_video_clips = MAX_CLIPS_PER_TYPE
    /\ Len(audio_highlights) = 1
    /\ audio_highlights[1].start_time = DefaultChunkDuration - DefaultOverlap
    /\ Len(video_highlights) = 1
    /\ video_highlights[1].start_time = 0

\* C22 (as claimed): a process_stream run of a generator whose min_gap is
\* zero or negative returns no selected highlights.
C22_NonPositiveGapRejected ==
    [][(ppc = "chunks" /\ ppc' # "chunks" /\ min_gap <= 0) =>
          (audio_highlights' = <<>> /\ video_highlights' = <<>>)]_vars

\* C23 (as claimed): when retrain() returns the prediction cache is empty,
\* and when a prediction reset its modality the cache holds at most the
\* entry that prediction wrote.
C23_CacheCleared ==
    [][/\ last' = "retrain" => ml'.cache = <<>>
       /\ (\E m \in Modalities : Trained(ml, m) /\ IsReset(ml', m)) =>
             Cardinality(DOMAIN ml'.cache) <= 1]_vars

\* C24 (as claimed): whenever the process has died and started again, the
\* file at model_path is a complete persisted state, the one before the
\* interrupted save_model or the one it was writing.
C24_PersistAllOrNothing ==
    last = "restart" => blob # TruncatedBlob

\* C25 (as claimed): a retrain() call while every modality holds fewer
\* than 10 samples changes neither the object (ensembles, standardization,
\* fitted flags, expected feature counts) nor the persisted blob.
C25_RetrainBelowThresholdNoOp ==
    [][(/\ last' = "retrain"
        /\ \A m \in Modalities : DataLen(ml.training_data[m]) < MinSamples) =>
          /\ ml'.model = ml.model
          /\ ml'.scaler = ml.scaler
          /\ ml'.scaler_fitted = ml.scaler_fitted
          /\ ml'.expected_features = ml.expected_features
          /\ blob' = blob]_vars

\* The part of C25 on the object alone.
C25_ObjectUnchanged ==
    [][(/\ last' = "retrain"
        /\ \A m \in Modalities : DataLen(ml.training_data[m]) < MinSamples) =>
          ml' = ml]_vars

\* C26 (as claimed): for each modality whose fitted flag is set, the
\* expected feature count is set, the accumulator holds at least 10 samples,
\* and every stored vector has the expected length.
C26_FittedImpliesConsistent ==
    \A m \in Modalities :
        ml.scaler_fitted[m] =>
            /\ ml.expected_features[m] # 0
            /\ DataLen(ml.training_data[m]) >= MinSamples
            /\ \A l \in FeatureLens :
                  ml.training_data[m][l] > 0 => l = ml.expected_features[m]

\* C27 (as claimed): at most one process_stream_wrapper call is inside the
\* analysis section at any time, and the flag is False whenever no call is
\* running.
C27_OneCallInside ==
    /\ Cardinality({c \in Calls : wpc[c] = "analysis"}) <= 1
    /\ (\A c \in Calls : wpc[c] = "idle") => ~processing

\* The second part of C27 alone.
C27_FlagClearWhenIdle ==
    (\A c \in Calls : wpc[c] = "idle") => ~processing

\* C28 (as claimed): a candidate built in a loop iteration carries the
\* start and the end of the window that iteration yielded, so its end_time
\* is not beyond the end bound of the range.
C28_CandidateCarriesWindow ==
    [][(ppc = "chunks" /\ chunk_index' = chunk_index + 1) =>
          \A m \in Modalities :
             Len(PassHighlights(m)') > Len(PassHighlights(m)) =>
                LET c == PassHighlights(m)'[Len(PassHighlights(m)')]
                IN  /\ c.start_time = chunk_info'[1].start_time
                    /\ c.end_time = chunk_info'[1].end_time
                    /\ c.end_time <= end_time_sec]_vars

\* ceil(a / b) for b > 0
CeilDiv(a, b) == -((-a) \div b)

\* The most windows a pass over [StartBound, end_time_sec) may attempt
AttemptBound ==
    Max(0, CeilDiv(end_time_sec - StartBound, chunk_duration - overlap))

\* C29: a pass enters its loop with no window attempted; every iteration,
\* whether its download succeeds or fails, attempts exactly one more window
\* of the same range and stays within ceil((end - start) / (L - O)) windows;
\* the loop is left only when the range is used up.
C29_AttemptsBounded ==
    [][/\ (ppc = "idle" /\ ppc' = "chunks") => chunk_index' = 0
       /\ (ppc = "chunks" /\ ppc' = "chunks") =>
             /\ chunk_index' = chunk_index + 1
             /\ StartBound' = StartBound
             /\ end_time_sec' = end_time_sec
             /\ chunk_index' <= AttemptBound
       /\ (ppc = "chunks" /\ ppc' # "chunks") =>
             /\ current_time >= end_time_sec
             /\ chunk_index = AttemptBound]_vars

\* A pass whose first download succeeded and whose later ones all failed
\* has attempted as many windows as the bound allows, three or more.
C29_Witness ==
    /\ ppc = "chunks"
    /\ chunk_index >= 3
    /\ chunk_index = AttemptBound
    /\ chunk_info # None
    /\ chunk_info[1].index = 0

\* RatingBasedTrainer.get_training_progress, the fields read from the file
\* at model_path: model_trained is the existence of the file, the sample
\* counts are those of the pickle, or 0 when it cannot be read.
get_training_progress(b) ==
    [model_trained |-> b.exists,
     audio_training_samples |->
         IF b.exists /\ b # TruncatedBlob
         THEN DataLen(b.training_data["audio"]) ELSE 0,
     video_training_samples |->
         IF b.exists /\ b # TruncatedBlob
         THEN DataLen(b.training_data["video"]) ELSE 0]

\* C30 (as claimed): model_trained is reported True only when the persisted
\* model has a fitted modality.
C30_TrainedMeansFitted ==
    get_training_progress(blob).model_trained =>
        \E m \in Modalities : blob.model[m] # 0

====
